---- MODULE Spec2Model ----
(***************************************************************************)
(* Model of the mongo-go HTTP read API (cmd/main.go, config/config.go).    *)
(* main is a sequential process (pc), the handlers are atomic operations   *)
(* that run once the server is listening.  The database contents, the      *)
(* outcome of every driver call and the path parameter are inputs.         *)
(***************************************************************************)
EXTENDS Integers, Sequences, FiniteSets, TLC

VARIABLES pc, exitCode, failure, steps, defers, client, disconnects, logged,
          mongoURI, customerCollection, productCollection, orderCollection,
          portBound, db, resp

vars == <<pc, exitCode, failure, steps, defers, client, disconnects, logged,
          mongoURI, customerCollection, productCollection, orderCollection,
          portBound, db, resp>>

(* ------------------------------ bounds --------------------------------- *)
\* the number of documents the whole database holds, and of distinct _id values
MaxDocs == 2

(* --------------------------- hex / ObjectID ---------------------------- *)
IDLen == 12
HexLen == 24

LowerHex == <<"0","1","2","3","4","5","6","7","8","9","a","b","c","d","e","f">>
UpperHex == <<"0","1","2","3","4","5","6","7","8","9","A","B","C","D","E","F">>

\* encoding/hex fromHexChar: accepts 0-9, a-f, A-F
IsHexChar(c) == \E i \in 1..16 : LowerHex[i] = c \/ UpperHex[i] = c
FromHexChar(c) == (CHOOSE i \in 1..16 : LowerHex[i] = c \/ UpperHex[i] = c) - 1

\* primitive.ObjectIDFromHex, accepting variant used as a fault: no length test
ObjectIDFromHexNoLen(s) ==
    IF \E i \in 1..Len(s) : ~IsHexChar(s[i])
    THEN [err |-> TRUE, id |-> <<>>]
    ELSE [err |-> FALSE,
          id |-> [i \in 1..(Len(s) \div 2) |->
                     FromHexChar(s[2*i - 1]) * 16 + FromHexChar(s[2*i])]]

\* primitive.ObjectIDFromHex: len(s) != 24 or a non-hex byte is an error
ObjectIDFromHex(s) ==
    IF Len(s) # HexLen THEN [err |-> TRUE, id |-> <<>>]
    ELSE IF \E i \in 1..HexLen : ~IsHexChar(s[i])
    THEN [err |-> TRUE, id |-> <<>>]
    ELSE [err |-> FALSE,
          id |-> [i \in 1..IDLen |->
                     FromHexChar(s[2*i - 1]) * 16 + FromHexChar(s[2*i])]]

\* ObjectID.Hex / ObjectID.MarshalJSON: lower-case hex of the 12 bytes
Hex(id) ==
    [i \in 1..(2 * Len(id)) |->
        IF i % 2 = 1 THEN LowerHex[(id[(i + 1) \div 2] \div 16) + 1]
                     ELSE LowerHex[(id[i \div 2] % 16) + 1]]

(* ------------------------- database contents --------------------------- *)
CollNames == <<"customers", "products", "orders">>
CollSet == {CollNames[i] : i \in 1..Len(CollNames)}

\* 507f1f77bcf86cd7994390xx
ObjID(n) == <<80, 127, 31, 119, 188, 248, 108, 215, 153, 67, 144, n>>
AbsentID == ObjID(153)

\* documents of heterogeneous shape: every document carries _id
Doc(n) == IF n % 2 = 1 THEN [_id |-> ObjID(16 + n), name |-> "Alice"]
                       ELSE [_id |-> ObjID(16 + n), email |-> "bob@example.com"]
Docs == {Doc(n) : n \in 1..MaxDocs}

\* a collection in cursor (natural) order; _id is unique within a collection
Collections ==
    {s \in UNION {[1..k -> Docs] : k \in 0..MaxDocs} :
        \A i, j \in 1..Len(s) : i # j => s[i]._id # s[j]._id}

\* firstDB: the three collections, at most MaxDocs documents in all
RECURSIVE Total(_, _)
Total(f, i) == IF i = 0 THEN 0 ELSE Len(f[CollNames[i]]) + Total(f, i - 1)
Databases == {f \in [CollSet -> Collections] : Total(f, Len(CollNames)) <= MaxDocs}

Range(s) == {s[i] : i \in 1..Len(s)}
Perms(S) == {s \in [1..Cardinality(S) -> S] : Range(s) = S}

(* ------------------------------ inputs --------------------------------- *)
NotAnID == <<"n","o","t","-","a","n","-","i","d">>
ToUpper(s) == [i \in 1..Len(s) |->
                 IF \E k \in 1..16 : LowerHex[k] = s[i]
                 THEN UpperHex[CHOOSE k \in 1..16 : LowerHex[k] = s[i]]
                 ELSE s[i]]
Params ==
    {Hex(d._id) : d \in Docs}
    \cup {Hex(AbsentID), ToUpper(Hex(ObjID(17))), NotAnID,
          SubSeq(Hex(ObjID(17)), 1, 23), Append(Hex(ObjID(17)), "0"),
          Hex(ObjID(17)) \o Hex(ObjID(17)),
          [Hex(ObjID(17)) EXCEPT ![5] = "g"]}

Nil == "nil"
ErrText == "db error"
\* the last response produced by a handler (none yet)
Response(route, id, handle, status, body, calls, errAt) ==
    [route |-> route, id |-> id, handle |-> handle, status |-> status,
     body |-> body, calls |-> calls, errAt |-> errAt]
NoResp == Response("none", <<>>, Nil, 0, <<"none">>, <<>>, 0)
\* a nil *mongo.Collection dereferenced inside a handler
Panic(route, id) == Response(route, id, Nil, 0, <<"panic">>, <<>>, 0)

(* ------------------------------ main ----------------------------------- *)
\* os.Exit(1) reached through log.Fatalf / logger.Fatal / os.Exit:
\* the process ends at once, deferred calls do not run.
Fatal(why) ==
    /\ pc' = "exited"
    /\ exitCode' = 1
    /\ failure' = why

\* zap.NewProduction
NewLogger ==
    /\ pc = "start"
    /\ \E ok \in BOOLEAN :
         IF ok
         THEN /\ pc' = "loadEnv"
              /\ defers' = <<"logger.Sync">> \o defers
              /\ UNCHANGED <<exitCode, failure>>
         ELSE /\ Fatal("logger")
              /\ UNCHANGED defers
    /\ UNCHANGED <<steps, client, disconnects, logged, mongoURI,
                   customerCollection, productCollection, orderCollection,
                   portBound, db, resp>>

\* fault: the load error is ignored and startup continues
LoadEnvIgnoreError ==
    /\ pc = "loadEnv"
    /\ \E readable \in BOOLEAN :
         /\ pc' = "getURL"
         /\ steps' = Append(steps, "LoadEnv")
         /\ failure' = IF readable THEN failure ELSE "config"
         /\ UNCHANGED exitCode
    /\ UNCHANGED <<defers, client, disconnects, logged, mongoURI,
                   customerCollection, productCollection, orderCollection,
                   portBound, db, resp>>

\* config.LoadEnv: godotenv.Load, log.Fatalf on error
LoadEnv ==
    /\ pc = "loadEnv"
    /\ \E readable \in BOOLEAN :
         IF readable
         THEN /\ pc' = "getURL"
              /\ steps' = Append(steps, "LoadEnv")
              /\ UNCHANGED <<exitCode, failure>>
         ELSE /\ Fatal("config")
              /\ UNCHANGED steps
    /\ UNCHANGED <<defers, client, disconnects, logged, mongoURI,
                   customerCollection, productCollection, orderCollection,
                   portBound, db, resp>>

\* config.GetMongoDB_URL and the empty test of main
GetMongoDB_URL ==
    /\ pc = "getURL"
    /\ \E uri \in {"", "mongodb://host"} :
         /\ mongoURI' = uri
         /\ IF uri = ""
            THEN /\ Fatal("url")
                 /\ UNCHANGED steps
            ELSE /\ pc' = "connect"
                 /\ steps' = Append(steps, "GetURL")
                 /\ UNCHANGED <<exitCode, failure>>
    /\ UNCHANGED <<defers, client, disconnects, logged,
                   customerCollection, productCollection, orderCollection,
                   portBound, db, resp>>

\* mongo.Connect, then the deferred Disconnect is scheduled
Connect ==
    /\ pc = "connect"
    /\ \E ok \in BOOLEAN :
         IF ok
         THEN /\ client' = "connected"
              /\ defers' = <<"client.Disconnect">> \o defers
              /\ steps' = Append(steps, "Connect")
              /\ pc' = "ping"
              /\ UNCHANGED <<exitCode, failure>>
         ELSE /\ Fatal("connect")
              /\ UNCHANGED <<client, defers, steps>>
    /\ UNCHANGED <<disconnects, logged, mongoURI,
                   customerCollection, productCollection, orderCollection,
                   portBound, db, resp>>

\* fault: the ping error is only logged and startup continues
PingIgnoreError ==
    /\ pc = "ping"
    /\ \E result \in {"ok", "timeout", "unreachable"} :
         /\ defers' = <<"cancel">> \o defers
         /\ steps' = IF result = "ok" THEN Append(steps, "Ping") ELSE steps
         /\ pc' = "assign"
         /\ UNCHANGED <<exitCode, failure>>
    /\ UNCHANGED <<client, disconnects, logged, mongoURI,
                   customerCollection, productCollection, orderCollection,
                   portBound, db, resp>>

\* context.WithTimeout(10s), defer cancel, RunCommand(ping).Err()
Ping ==
    /\ pc = "ping"
    /\ \E result \in {"ok", "timeout", "unreachable"} :
         /\ defers' = <<"cancel">> \o defers
         /\ IF result = "ok"
            THEN /\ steps' = Append(steps, "Ping")
                 /\ pc' = "assign"
                 /\ UNCHANGED <<exitCode, failure>>
            ELSE /\ Fatal("ping")
                 /\ UNCHANGED steps
    /\ UNCHANGED <<client, disconnects, logged, mongoURI,
                   customerCollection, productCollection, orderCollection,
                   portBound, db, resp>>

\* the three package-level handles, then fiber.New and the route table
AssignCollections ==
    /\ pc = "assign"
    /\ customerCollection' = "customers"
    /\ productCollection' = "products"
    /\ orderCollection' = "orders"
    /\ steps' = Append(steps, "Assign")
    /\ pc' = "listen"
    /\ UNCHANGED <<exitCode, failure, defers, client, disconnects, logged,
                   mongoURI, portBound, db, resp>>

\* app.Listen(":8090"): binds the port and serves, or fails to bind
Listen ==
    /\ pc = "listen"
    /\ \E bound \in BOOLEAN :
         IF bound
         THEN /\ portBound' = TRUE
              /\ steps' = Append(steps, "Listen")
              /\ pc' = "serving"
              /\ UNCHANGED <<exitCode, failure>>
         ELSE /\ Fatal("bind")
              /\ UNCHANGED <<portBound, steps>>
    /\ UNCHANGED <<defers, client, disconnects, logged, mongoURI,
                   customerCollection, productCollection, orderCollection,
                   db, resp>>

\* the deferred calls of main, run in LIFO order on return
RECURSIVE RunDefers(_, _, _)
RunDefers(ds, st, discErr) ==
    IF ds = <<>> THEN st
    ELSE LET d == Head(ds) IN
         RunDefers(Tail(ds),
             IF d = "client.Disconnect"
             THEN [client |-> "disconnected",
                   disconnects |-> st.disconnects + 1,
                   logged |-> IF discErr
                              THEN Append(st.logged, "Failed to disconnect from MongoDB.")
                              ELSE st.logged]
             ELSE st,
             discErr)

\* app.Listen returns while serving: with an error (Fatal) or nil (main returns)
ListenReturns ==
    /\ pc = "serving"
    /\ \E err \in BOOLEAN, discErr \in BOOLEAN :
         IF err
         THEN /\ Fatal("serve")
              /\ UNCHANGED <<defers, client, disconnects, logged>>
         ELSE LET st == RunDefers(defers,
                           [client |-> client, disconnects |-> disconnects,
                            logged |-> logged], discErr) IN
              /\ client' = st.client
              /\ disconnects' = st.disconnects
              /\ logged' = st.logged
              /\ defers' = <<>>
              /\ pc' = "exited"
              /\ exitCode' = 0
              /\ UNCHANGED failure
    /\ UNCHANGED <<steps, mongoURI,
                   customerCollection, productCollection, orderCollection,
                   portBound, db, resp>>

(* ----------------------------- handlers -------------------------------- *)
\* bson.M -> JSON object; an ObjectID value marshals as its hex string
JSONDoc(d) == [f \in DOMAIN d |-> IF f = "_id" THEN Hex(d[f]) ELSE d[f]]

\* a Go slice: nil or allocated, with its elements
NilSlice == [nil |-> TRUE, elems |-> <<>>]
\* cursor.All(&slice): appends every document; nothing appended leaves it as declared
CursorAll(slice, docs) ==
    IF Len(docs) = 0 THEN slice ELSE [nil |-> FALSE, elems |-> slice.elems \o docs]
\* c.JSON of a []bson.M: a nil slice encodes as null
JSONSlice(sl) ==
    IF sl.nil THEN <<"null">>
    ELSE <<"array", [i \in 1..Len(sl.elems) |-> JSONDoc(sl.elems[i])]>>

\* getAllCustomers / getAllProducts / getAllOrders
GetAll(route, handle, findErr, allErr) ==
    IF handle = Nil THEN Panic(route, <<>>)
    ELSE IF findErr
    THEN Response(route, <<>>, handle, 500, <<"text", ErrText>>,
                  <<<<"Find", handle>>>>, 1)
    ELSE IF allErr
    THEN Response(route, <<>>, handle, 500, <<"text", ErrText>>,
                  <<<<"Find", handle>>, <<"All", handle>>, <<"Close", handle>>>>, 2)
    ELSE Response(route, <<>>, handle, 200,
                  JSONSlice(CursorAll(NilSlice, db[handle])),
                  <<<<"Find", handle>>, <<"All", handle>>, <<"Close", handle>>>>, 0)

\* fault: the filter is dropped, FindOne returns the first document
FindOneNoFilter(docs, oid) == IF Len(docs) = 0 THEN <<>> ELSE <<docs[1]>>

\* collection.FindOne(filter {_id: oid}): the matching document, if any
FindOne(docs, oid) ==
    LET m == SelectSeq(docs, LAMBDA d : d._id = oid) IN
    IF Len(m) = 0 THEN <<>> ELSE <<m[1]>>

\* fault: a missing document is reported like any other lookup error
NotFoundAsError(entity, msg) ==
    [status |-> 500, body |-> <<"text", "Error finding ", entity, ": ", "mongo: no documents in result">>]

\* the mongo.ErrNoDocuments branch
NotFound(entity, msg) == [status |-> 404, body |-> <<"text", msg>>]

\* getCustomerByID / getProductByID / getOrderByID
GetByID(route, handle, entity, msg, id, dbFail) ==
    LET r == ObjectIDFromHex(id) IN
    IF r.err
    THEN Response(route, id, handle, 400, <<"text", "Invalid ID format">>, <<>>, 0)
    ELSE IF handle = Nil THEN Panic(route, id)
    ELSE IF dbFail
    THEN Response(route, id, handle, 500,
                  <<"text", "Error finding ", entity, ": ", ErrText>>,
                  <<<<"FindOne", handle>>>>, 1)
    ELSE LET m == FindOne(db[handle], r.id) IN
         IF m = <<>>
         THEN Response(route, id, handle, NotFound(entity, msg).status,
                       NotFound(entity, msg).body, <<<<"FindOne", handle>>>>, 0)
         ELSE Response(route, id, handle, 200, <<"object", JSONDoc(m[1])>>,
                       <<<<"FindOne", handle>>>>, 0)

\* fault: the last document is sampled instead of the first
SampleLast(docs) == IF Len(docs) = 0 THEN <<>> ELSE <<docs[Len(docs)]>>

\* cursor.Next called once: the first document of the cursor, if any
Sample(docs) == IF Len(docs) = 0 THEN <<>> ELSE <<docs[1]>>

\* the orders in which `for key := range result` may visit the keys of a map
KeyOrders(docs) ==
    IF Sample(docs) = <<>> THEN {<<>>} ELSE Perms(DOMAIN Sample(docs)[1])

Outcomes == {"ok", "findErr", "nextErr", "decodeErr"}
\* the outcome aborts the request (a decode only happens on a sampled document)
Aborts(o, docs) == o = "findErr" \/ (o = "decodeErr" /\ Len(docs) > 0)
\* driver outcomes of one request: nothing is called after the aborting call
Runs == {out \in [CollSet -> Outcomes] :
            \A i \in 1..Len(CollNames) :
               /\ (out[CollNames[i]] = "decodeErr" => Len(db[CollNames[i]]) > 0)
               /\ (\E j \in 1..(i - 1) : Aborts(out[CollNames[j]], db[CollNames[j]]))
                     => out[CollNames[i]] = "ok"}

\* the loop of listFields over the collection names, from the i-th on
RECURSIVE FieldsLoop(_, _, _, _, _, _, _)
FieldsLoop(i, fields, calls, open, errAt, out, ord) ==
    LET closes == [k \in 1..Len(open) |-> <<"Close", open[Len(open) + 1 - k]>>] IN
    IF i > Len(CollNames)
    THEN Response("fields", <<>>, client, 200, <<"object", fields>>,
                  calls \o closes, errAt)
    ELSE LET c == CollNames[i]
             calls1 == Append(calls, <<"Find", c>>)
             calls2 == Append(calls1, <<"Next", c>>)
             calls3 == Append(calls2, <<"Decode", c>>)
             first == IF errAt = 0 THEN Len(calls2) ELSE errAt
         IN
         IF out[c] = "findErr"
         THEN Response("fields", <<>>, client, 500, <<"text", ErrText>>,
                       calls1 \o closes,
                       IF errAt = 0 THEN Len(calls1) ELSE errAt)
         ELSE IF out[c] = "nextErr"
         THEN \* Next returns false, cursor.Err() is never read
              FieldsLoop(i + 1, fields, calls2, Append(open, c), first, out, ord)
         ELSE IF Sample(db[c]) = <<>>
         THEN FieldsLoop(i + 1, fields, calls2, Append(open, c), errAt, out, ord)
         ELSE IF out[c] = "decodeErr"
         THEN Response("fields", <<>>, client, 500, <<"text", ErrText>>,
                       calls3 \o [k \in 1..(Len(open) + 1) |->
                                     <<"Close", Append(open, c)[Len(open) + 2 - k]>>],
                       IF errAt = 0 THEN Len(calls3) ELSE errAt)
         ELSE FieldsLoop(i + 1, fields \cup {<<c, ord[c]>>}, calls3,
                         Append(open, c), errAt, out, ord)

\* listFields
ListFieldsResp(listErr, out, ord) ==
    IF listErr
    THEN Response("fields", <<>>, client, 500, <<"text", ErrText>>,
                  <<<<"ListCollectionNames">>>>, 1)
    ELSE FieldsLoop(1, {}, <<<<"ListCollectionNames">>>>, <<>>, 0, out, ord)

\* the server dispatches requests while app.Listen is serving; resp is the
\* response of the request being answered, and a client may repeat a
\* request to the same route before the response is written out
Serving(route) == pc = "serving" /\ (resp = NoResp \/ resp.route = route)
Unchanged == UNCHANGED <<pc, exitCode, failure, steps, defers, client, disconnects,
                         logged, mongoURI, customerCollection, productCollection,
                         orderCollection, portBound, db>>

\* the key orders of one request: one per collection whose sample is decoded
Orders(out) ==
    {f \in [CollSet -> UNION {KeyOrders(db[c]) : c \in CollSet} \cup {<<>>}] :
        \A c \in CollSet :
            f[c] \in (IF out[c] = "ok" THEN KeyOrders(db[c]) ELSE {<<>>})}

listFields ==
    /\ Serving("fields")
    /\ \/ resp' = ListFieldsResp(TRUE, [c \in CollSet |-> "ok"], [c \in CollSet |-> <<>>])
       \/ \E out \in Runs : \E ord \in Orders(out) :
              resp' = ListFieldsResp(FALSE, out, ord)
    /\ Unchanged

getAllCustomers ==
    /\ Serving("customers")
    /\ \E findErr \in BOOLEAN, allErr \in BOOLEAN :
           resp' = GetAll("customers", customerCollection, findErr, allErr)
    /\ Unchanged

getAllProducts ==
    /\ Serving("products")
    /\ \E findErr \in BOOLEAN, allErr \in BOOLEAN :
           resp' = GetAll("products", productCollection, findErr, allErr)
    /\ Unchanged

getAllOrders ==
    /\ Serving("orders")
    /\ \E findErr \in BOOLEAN, allErr \in BOOLEAN :
           resp' = GetAll("orders", orderCollection, findErr, allErr)
    /\ Unchanged

getCustomerByID ==
    /\ Serving("customers/:id")
    /\ \E id \in Params, dbFail \in BOOLEAN :
           resp' = GetByID("customers/:id", customerCollection, "customer",
                           "Customer not found", id, dbFail)
    /\ Unchanged

getProductByID ==
    /\ Serving("products/:id")
    /\ \E id \in Params, dbFail \in BOOLEAN :
           resp' = GetByID("products/:id", productCollection, "product",
                           "Product not found", id, dbFail)
    /\ Unchanged

getOrderByID ==
    /\ Serving("orders/:id")
    /\ \E id \in Params, dbFail \in BOOLEAN :
           resp' = GetByID("orders/:id", orderCollection, "order",
                           "Order not found", id, dbFail)
    /\ Unchanged

\* the handler returns and fiber writes the response to the connection
Send ==
    /\ pc = "serving"
    /\ resp # NoResp
    /\ resp' = NoResp
    /\ Unchanged

(* --------------------------- specification ----------------------------- *)
Init ==
    /\ pc = "start"
    /\ exitCode = -1
    /\ failure = "none"
    /\ steps = <<>>
    /\ defers = <<>>
    /\ client = Nil
    /\ disconnects = 0
    /\ logged = <<>>
    /\ mongoURI = ""
    /\ customerCollection = Nil
    /\ productCollection = Nil
    /\ orderCollection = Nil
    /\ portBound = FALSE
    /\ db \in Databases
    /\ resp = NoResp

Next ==
    \/ NewLogger
    \/ LoadEnv
    \/ GetMongoDB_URL
    \/ Connect
    \/ Ping
    \/ AssignCollections
    \/ Listen
    \/ ListenReturns
    \/ listFields
    \/ getAllCustomers
    \/ getAllProducts
    \/ getAllOrders
    \/ getCustomerByID
    \/ getProductByID
    \/ getOrderByID
    \/ Send

Spec == Init /\ [][Next]_vars

(* ------------------------------ claims --------------------------------- *)
HexDigits == {"0","1","2","3","4","5","6","7","8","9",
              "a","b","c","d","e","f","A","B","C","D","E","F"}
IsValid24Hex(s) == Len(s) = 24 /\ \A i \in 1..Len(s) : s[i] \in HexDigits
ByIDRoutes == {"customers/:id", "products/:id", "orders/:id"}
CollOf(route) == CASE route = "customers/:id" -> "customers"
                   [] route = "products/:id" -> "products"
                   [] route = "orders/:id" -> "orders"
NotFoundMsg(route) == CASE route = "customers/:id" -> "Customer not found"
                        [] route = "products/:id" -> "Product not found"
                        [] route = "orders/:id" -> "Order not found"
Absent(route, id) ==
    \A d \in Range(db[CollOf(route)]) : ToUpper(Hex(d._id)) # ToUpper(id)

\* C1: a Get-by-ID handler given an id that is not a valid 24-hex-character
\* identifier answers 400 "Invalid ID format" and never calls FindOne.
C1_InvalidIDRejected ==
    (resp.route \in ByIDRoutes /\ ~IsValid24Hex(resp.id))
    => /\ resp.status = 400
       /\ resp.body = <<"text", "Invalid ID format">>
       /\ \A k \in 1..Len(resp.calls) : resp.calls[k][1] # "FindOne"

C1_Witness ==
    /\ resp.route = "orders/:id"
    /\ Len(resp.id) = HexLen + 1
    /\ resp.status = 400

\* C2: a Get-by-ID handler given a valid identifier that no document of its
\* collection carries answers 404 with the collection's message, provided the
\* lookup itself does not fail.
C2_AbsentIsNotFound ==
    (/\ resp.route \in ByIDRoutes
     /\ IsValid24Hex(resp.id)
     /\ resp.errAt = 0
     /\ Absent(resp.route, resp.id))
    => /\ resp.status = 404
       /\ resp.body = <<"text", NotFoundMsg(resp.route)>>

C2_Witness ==
    /\ resp.route = "products/:id"
    /\ resp.status = 404
    /\ Len(db["products"]) > 0
    /\ \E d \in Range(db["customers"]) : Hex(d._id) = resp.id

\* C3: a List handler over an empty collection, with no database error,
\* answers 200 with the JSON empty array.
C3_EmptyListIsEmptyArray ==
    (resp.route \in CollSet /\ resp.errAt = 0 /\ Len(db[resp.route]) = 0)
    => /\ resp.status = 200
       /\ resp.body = <<"array", <<>>>>

\* C4: with no database error, the FieldListing has a key for a collection
\* iff the collection holds a document, and the value is exactly the set of
\* field names of the first document the cursor returns.
C4_FieldListing ==
    (resp.route = "fields" /\ resp.errAt = 0)
    => /\ resp.status = 200
       /\ resp.body[1] = "object"
       /\ \A p \in resp.body[2] : p[1] \in CollSet
       /\ \A c \in CollSet :
            LET e == {p \in resp.body[2] : p[1] = c} IN
            IF Len(db[c]) = 0 THEN e = {}
            ELSE /\ Cardinality(e) = 1
                 /\ \A p \in e : /\ Range(p[2]) = DOMAIN db[c][1]
                                 /\ Len(p[2]) = Cardinality(DOMAIN db[c][1])

C4_Witness ==
    /\ resp.route = "fields"
    /\ resp.errAt = 0
    /\ Len(db["customers"]) = 2
    /\ DOMAIN db["customers"][1] # DOMAIN db["customers"][2]
    /\ Len(db["orders"]) = 0
    /\ \E p \in resp.body[2] : p[1] = "customers"

\* C5: in listFields any database error at any step aborts the request with
\* 500 and the error text, and no database call follows the first error.
C5_AnyErrorAborts ==
    (resp.route = "fields" /\ resp.errAt # 0)
    => /\ resp.status = 500
       /\ resp.body = <<"text", ErrText>>
       /\ \A k \in 1..Len(resp.calls) :
            k > resp.errAt => resp.calls[k][1] = "Close"

\* C6: repeating a request against the unchanged database yields the same
\* body, the order of the field names in /api/fields included.
C6_Idempotent ==
    [][(/\ resp.route # "none"
        /\ resp'.route = resp.route
        /\ resp'.id = resp.id
        /\ resp.errAt = 0
        /\ resp'.errAt = 0)
       => resp'.body = resp.body]_vars

\* GET /api/customers/<hex of X> returns document d
ReturnsDoc(d) ==
    /\ resp.status = 200
    /\ resp.body[1] = "object"
    /\ DOMAIN resp.body[2] = DOMAIN d
    /\ resp.body[2]["_id"] = resp.id
    /\ \A f \in DOMAIN d \ {"_id"} : resp.body[2][f] = d[f]

\* every field name of d is listed under "customers"
ListsFieldsOf(d) ==
    \A f \in DOMAIN d :
        \E p \in resp.body[2] : p[1] = "customers" /\ f \in Range(p[2])

\* C7 as stated: any customer document is returned by its hex id, and all
\* its field names appear under "customers" in /api/fields, whatever other
\* documents the collection holds.
C7_RoundTrip ==
    /\ \A d \in Range(db["customers"]) :
         (resp.route = "customers/:id" /\ resp.errAt = 0 /\ resp.id = Hex(d._id))
         => ReturnsDoc(d)
    /\ (resp.route = "fields" /\ resp.errAt = 0)
         => \A d \in Range(db["customers"]) : ListsFieldsOf(d)

\* C7 amended: any customer document is returned by its hex id; its field
\* names appear under "customers" in /api/fields when it is the first
\* document the cursor returns for customers.
C7_RoundTripFirst ==
    /\ \A d \in Range(db["customers"]) :
         (resp.route = "customers/:id" /\ resp.errAt = 0 /\ resp.id = Hex(d._id))
         => ReturnsDoc(d)
    /\ (resp.route = "fields" /\ resp.errAt = 0 /\ Len(db["customers"]) > 0)
         => ListsFieldsOf(db["customers"][1])

C7_Witness ==
    /\ resp.route = "customers/:id"
    /\ resp.status = 200
    /\ Len(db["customers"]) = 2
    /\ resp.id = Hex(db["customers"][2]._id)

StartupOrder == <<"LoadEnv", "GetURL", "Connect", "Ping", "Assign", "Listen">>
HandlesSet ==
    /\ customerCollection = "customers"
    /\ productCollection = "products"
    /\ orderCollection = "orders"

\* C8: the port is bound and a handler runs only after the environment was
\* loaded, a non-empty URL read, Connect and the ping succeeded and the three
\* handles were assigned, in that order; a handle once set is never reassigned.
C8_ServeOnlyVerified ==
    /\ []((portBound \/ resp # NoResp)
            => /\ steps = StartupOrder
               /\ mongoURI # ""
               /\ client # Nil
               /\ HandlesSet
               /\ (resp # NoResp => resp.handle # Nil))
    /\ [][/\ customerCollection # Nil => customerCollection' = customerCollection
          /\ productCollection # Nil => productCollection' = productCollection
          /\ orderCollection # Nil => orderCollection' = orderCollection]_vars

C8_Witness ==
    /\ portBound
    /\ resp.route = "customers"
    /\ resp.status = 200
    /\ resp.handle = "customers"

\* C9: every fatal startup condition ends the process with exit code 1, and
\* those that precede a successful bind end it with the port never bound.
C9_FailFast ==
    failure # "none"
    => /\ pc = "exited"
       /\ exitCode = 1
       /\ (failure \in {"logger", "config", "url", "connect", "ping", "bind"}
             => ~portBound /\ resp = NoResp)

C9_Witness ==
    /\ failure = "config"
    /\ pc = "exited"
    /\ exitCode = 1

\* C10: once Connect has succeeded, Disconnect is invoked exactly once before
\* the process ends, on every exit path of main.
C10_DisconnectOnEveryExit ==
    (pc = "exited" /\ client # Nil) => disconnects = 1
====
